---------------------------- MODULE Spec2Model ----------------------------
(***************************************************************************)
(* Model of the RAG backend (rag-web-app/backend): the session registry    *)
(* and persisted vector stores of app.py / rag.py, the answer_question     *)
(* pipeline, and the score helpers _normalize_similarity_score and         *)
(* _filter_by_similarity_threshold.                                        *)
(*                                                                         *)
(* Floats are modelled as exact rationals <<numerator, denominator>> with  *)
(* a positive denominator; raw scores and thresholds lie on a grid of      *)
(* tenths.  Percentages are integers in tenths of a percent (round(x, 1)), *)
(* averages in hundredths of a percent (round(x, 2)).                      *)
(***************************************************************************)
EXTENDS Integers, Sequences, FiniteSets, TLC

VARIABLES
    sessions,   \* app.py `sessions`: session_id -> vector store handle
    vecdb,      \* directories under VECDB_DIR: name -> stored passages
    uploads,    \* files under UPLOADS_DIR
    nextSid,    \* number of uuid4 session ids drawn so far, plus one
    last,       \* the response of the most recent request
    ingested,   \* history: session ids whose ingestion returned normally
    deleted,    \* history: ingested session ids delete_session has run for
    aq,         \* one answer_question call: its position and locals
    fn          \* one call of a score helper: arguments and return value

vars == <<sessions, vecdb, uploads, nextSid, last, ingested, deleted, aq, fn>>

-----------------------------------------------------------------------------
(* Bounds of the model *)

\* raw scores -MaxNegRaw/10 .. MaxPosRaw/10 are given to the normaliser
MaxNegRaw == 15
MaxPosRaw == 42
\* thresholds -MaxOutThr/10 .. (10 + MaxOutThr)/10 are given to the filter
MaxOutThr == 3
\* longest retrieval result handed to the filter helper
MaxLen == 3
\* uuid4 session ids drawn in one run
MaxSessions == 2
\* most passages the splitter makes of one source
MaxChunks == 2
\* distinct sanitized upload file names
MaxFiles == 1

None == <<>>

-----------------------------------------------------------------------------
(* Exact arithmetic on floats *)

Rat(n, d) == <<n, d>>
RLe(a, b) == a[1] * b[2] <= b[1] * a[2]
RLt(a, b) == a[1] * b[2] < b[1] * a[2]
REq(a, b) == a[1] * b[2] = b[1] * a[2]
RAdd(a, b) == <<a[1] * b[2] + b[1] * a[2], a[2] * b[2]>>
RSub(a, b) == <<a[1] * b[2] - b[1] * a[2], a[2] * b[2]>>
\* a / b for b > 0
RDiv(a, b) == <<a[1] * b[2], a[2] * b[1]>>
RMax(a, b) == IF RLt(a, b) THEN b ELSE a
RMin(a, b) == IF RLt(b, a) THEN b ELSE a

Tenths(n) == Rat(n, 10)

\* round(n / d, 0) for n >= 0, d > 0: Python rounds halves to even
RoundHalfEven(n, d) ==
    LET q == n \div d
        r == n % d
    IN  IF 2 * r < d THEN q
        ELSE IF 2 * r > d THEN q + 1
        ELSE IF q % 2 = 0 THEN q ELSE q + 1

-----------------------------------------------------------------------------
(* rag.py: the score helpers *)

\* the clamp left out
NoClamp(x) == x

\* max(0.0, min(1.0, normalized_score))
Clamp01(x) == RMax(Rat(0, 1), RMin(Rat(1, 1), x))

\* a score already in [0,1] taken for a similarity and passed through
BranchKeepsUnitScores(s) ==
    IF RLe(Rat(0, 1), s) /\ RLe(s, Rat(1, 1))
        THEN s
    ELSE IF RLe(Rat(0, 1), s) /\ RLe(s, Rat(2, 1))
        THEN RSub(Rat(1, 1), RDiv(s, Rat(2, 1)))
    ELSE IF RLt(s, Rat(0, 1))
        THEN RDiv(RAdd(s, Rat(1, 1)), Rat(2, 1))
    ELSE RMax(Rat(0, 1),
              RDiv(Rat(1, 1), RAdd(Rat(1, 1), RSub(s, Rat(2, 1)))))

\* the branch chosen for a raw score, before the final clamp
NormalizeBranch(s) ==
    IF RLe(Rat(0, 1), s) /\ RLe(s, Rat(2, 1))
        THEN RSub(Rat(1, 1), RDiv(s, Rat(2, 1)))
    ELSE IF RLt(s, Rat(0, 1))
        THEN RDiv(RAdd(s, Rat(1, 1)), Rat(2, 1))
    ELSE IF RLt(Rat(2, 1), s)
        THEN RMax(Rat(0, 1),
                  RDiv(Rat(1, 1), RAdd(Rat(1, 1), RSub(s, Rat(2, 1)))))
    ELSE s

_normalize_similarity_score(raw_score) == Clamp01(NormalizeBranch(raw_score))

\* the comparison strict
PassesStrictly(raw_score, threshold) ==
    RLt(threshold, _normalize_similarity_score(raw_score))

\* the comparison the wrong way round
PassesBelow(raw_score, threshold) ==
    RLe(_normalize_similarity_score(raw_score), threshold)

\* similarity_score >= threshold
PassesThreshold(raw_score, threshold) ==
    RLe(threshold, _normalize_similarity_score(raw_score))

\* the loop of _filter_by_similarity_threshold: results are <<doc, raw_score>>
RECURSIVE FilterLoop(_, _)
FilterLoop(results, threshold) ==
    IF results = <<>> THEN <<>>
    ELSE LET rest == FilterLoop(Tail(results), threshold)
         IN  IF PassesThreshold(Head(results)[2], threshold)
                 THEN <<Head(results)>> \o rest
                 ELSE rest

_filter_by_similarity_threshold(results, threshold) ==
    IF threshold = None THEN results ELSE FilterLoop(results, threshold)

-----------------------------------------------------------------------------
(* The score helpers called on their own *)

RawScores == {Tenths(n) : n \in -MaxNegRaw..MaxPosRaw}
Thresholds == {Tenths(n) : n \in -MaxOutThr..(10 + MaxOutThr)}

\* raw scores on a grid of halves, for the lists given to the filter
HalfScores == {Tenths(5 * h) : h \in -(MaxNegRaw \div 5)..(MaxPosRaw \div 5)}

\* lists of <<doc, raw_score>> in any order; the i-th document is named i
ResultLists ==
    UNION {{[i \in 1..n |-> <<i, s[i]>>] : s \in [1..n -> HalfScores]} : n \in 0..MaxLen}

OtherThanFn == <<sessions, vecdb, uploads, nextSid, last, ingested, deleted, aq>>

FnIdle == [op |-> "idle", raw |-> None, results |-> <<>>, threshold |-> None,
           ret |-> None, again |-> None]

CallNormalize ==
    /\ fn.op = "idle"
    /\ \E raw \in RawScores :
          fn' = [op |-> "normalize", raw |-> raw, results |-> <<>>,
                 threshold |-> None, ret |-> _normalize_similarity_score(raw),
                 again |-> None]
    /\ UNCHANGED OtherThanFn

\* _normalize_similarity_score called on its own return value
CallNormalizeAgain ==
    /\ fn.op = "normalize"
    /\ fn' = [fn EXCEPT !.op = "renormalize",
                        !.again = _normalize_similarity_score(fn.ret)]
    /\ UNCHANGED OtherThanFn

CallFilter ==
    /\ fn.op = "idle"
    /\ \E results \in ResultLists, threshold \in Thresholds \cup {None} :
          fn' = [op |-> "filter", raw |-> None, results |-> results,
                 threshold |-> threshold,
                 ret |-> _filter_by_similarity_threshold(results, threshold),
                 again |-> None]
    /\ UNCHANGED OtherThanFn

-----------------------------------------------------------------------------
(* rag.py: answer_question *)

\* k = 10
K == 10

\* round(similarity_score_normalized * 100, 1), in tenths of a percent
SimilarityPercentage(raw_score) ==
    LET x == _normalize_similarity_score(raw_score)
    IN  RoundHalfEven(x[1] * 1000, x[2])

\* the loop over enumerate(results): one item per surviving passage
BuildMetadata(results) ==
    [i \in 1..Len(results) |->
        [chunk_id |-> i,
         doc |-> results[i][1],
         similarity_score |-> SimilarityPercentage(results[i][2])]]

\* context += f"Chunk {i+1} ({source_filename}): {doc.page_content}\n\n"
BuildContext(results) == [i \in 1..Len(results) |-> <<i, results[i][1]>>]

RECURSIVE SumSeq(_)
SumSeq(s) == IF s = <<>> THEN 0 ELSE Head(s) + SumSeq(Tail(s))

MaxSeq(s) == CHOOSE x \in {s[i] : i \in 1..Len(s)} : \A i \in 1..Len(s) : s[i] <= x
MinSeq(s) == CHOOSE x \in {s[i] : i \in 1..Len(s)} : \A i \in 1..Len(s) : x <= s[i]

\* the average taken without the emptiness guard
AvgUnguarded(scores) ==
    IF Len(scores) = 0
        THEN [raised |-> TRUE, value |-> 0]
        ELSE [raised |-> FALSE,
              value |-> RoundHalfEven(SumSeq(scores) * 10, Len(scores))]

\* round(sum(scores) / len(scores) if scores else 0, 2), in hundredths of a percent
AvgSimilarity(scores) ==
    IF scores # <<>>
        THEN [raised |-> FALSE,
              value |-> RoundHalfEven(SumSeq(scores) * 10, Len(scores))]
        ELSE [raised |-> FALSE, value |-> 0]

MaxSimilarity(scores) == IF scores # <<>> THEN MaxSeq(scores) * 10 ELSE 0
MinSimilarity(scores) == IF scores # <<>> THEN MinSeq(scores) * 10 ELSE 0

\* the filter run with a default threshold of 0.5 when none is given
PipelineDefaultThreshold(hits, similarity_threshold, use_relevance_filter) ==
    LET results == _filter_by_similarity_threshold(hits,
                       IF similarity_threshold = None THEN Tenths(5)
                                                      ELSE similarity_threshold)
    IN  [results |-> results,
         chunks_before_filter |-> Len(hits),
         chunks_after_similarity_filter |-> Len(results),
         chunks_after_relevance_filter |-> Len(results),
         context |-> BuildContext(results),
         metadata |-> BuildMetadata(results)]

\* lines 264-329: the filter stages, then context and metadata
Pipeline(hits, similarity_threshold, use_relevance_filter) ==
    LET chunks_before_filter == Len(hits)
        results == IF similarity_threshold # None
                       THEN _filter_by_similarity_threshold(hits, similarity_threshold)
                       ELSE hits
        chunks_after_similarity_filter == Len(results)
        \* the relevance stage is a placeholder: `pass`
        chunks_after_relevance_filter == chunks_after_similarity_filter
    IN  [results |-> results,
         chunks_before_filter |-> chunks_before_filter,
         chunks_after_similarity_filter |-> chunks_after_similarity_filter,
         chunks_after_relevance_filter |-> chunks_after_relevance_filter,
         context |-> BuildContext(results),
         metadata |-> BuildMetadata(results)]

Scores(metadata) == [i \in 1..Len(metadata) |-> metadata[i].similarity_score]

\* lines 336-360: the statistics and counts returned with the answer
TechnicalInfo(total_chunks, p, similarity_threshold, use_relevance_filter) ==
    [total_chunks_in_db |-> total_chunks,
     chunks_retrieved_initial |-> p.chunks_before_filter,
     chunks_after_similarity_filter |-> p.chunks_after_similarity_filter,
     chunks_after_relevance_filter |-> p.chunks_after_relevance_filter,
     chunks_used_for_answer |-> Len(p.results),
     avg_similarity_score |-> AvgSimilarity(Scores(p.metadata)).value,
     max_similarity_score |-> MaxSimilarity(Scores(p.metadata)),
     min_similarity_score |-> MinSimilarity(Scores(p.metadata)),
     similarity_threshold_applied |-> similarity_threshold,
     relevance_filter_applied |-> use_relevance_filter]

-----------------------------------------------------------------------------
(* One answer_question call, step by step; the vector store's search and   *)
(* the language model are external calls that return or raise.             *)

\* L2 distances on a grid of halves: what similarity_search_with_score scores
HitScores == {Tenths(5 * h) : h \in 0..(MaxPosRaw \div 5)}

IsAscending(s) == \A i \in 1..(Len(s) - 1) : RLe(s[i], s[i + 1])

\* what the index returns: <<doc, raw_score>> best first, i.e. by ascending
\* distance; the document at rank i is named i
RankedHits ==
    UNION {{[i \in 1..n |-> <<i, s[i]>>] :
               s \in {t \in [1..n -> HitScores] : IsAscending(t)}} : n \in 0..MaxLen}

NoPipeline == [results |-> <<>>, chunks_before_filter |-> 0,
               chunks_after_similarity_filter |-> 0,
               chunks_after_relevance_filter |-> 0,
               context |-> <<>>, metadata |-> <<>>]

AqIdle == [pc |-> "idle", similarity_threshold |-> None,
           use_relevance_filter |-> FALSE, hits |-> <<>>, total_chunks |-> 0,
           p |-> NoPipeline, llm_calls |-> 0, llm_context |-> <<>>,
           error |-> "", technical_info |-> <<>>]

OtherThanAq == <<sessions, vecdb, uploads, nextSid, last, ingested, deleted, fn>>

\* the call: answer_question(vectordb, question, similarity_threshold, use_relevance_filter)
AqCall ==
    /\ aq.pc = "idle"
    /\ \E t \in Thresholds \cup {None}, r \in BOOLEAN :
          aq' = [aq EXCEPT !.pc = "called", !.similarity_threshold = t,
                           !.use_relevance_filter = r]
    /\ UNCHANGED OtherThanAq

\* lines 254-262: the search returns at most k hits, and the collection is
\* counted
AqSearch ==
    /\ aq.pc = "called"
    /\ \E hits \in {h \in RankedHits : Len(h) <= K} :
          aq' = [aq EXCEPT !.pc = "searched", !.hits = hits,
                           !.total_chunks = Len(hits)]
    /\ UNCHANGED OtherThanAq

\* line 255: the embedding of the question fails and the search raises
AqSearchRaises ==
    /\ aq.pc = "called"
    /\ aq' = [aq EXCEPT !.pc = "failed", !.error = "retrieval"]
    /\ UNCHANGED OtherThanAq

\* lines 264-332: filter, context, metadata, and the prompt is formatted
AqBuild ==
    /\ aq.pc = "searched"
    /\ aq' = [aq EXCEPT !.pc = "prompted",
                        !.p = Pipeline(aq.hits, aq.similarity_threshold,
                                       aq.use_relevance_filter)]
    /\ UNCHANGED OtherThanAq

\* lines 333-362: llm.invoke returns; the statistics are computed and returned
AqLlmReturns ==
    /\ aq.pc = "prompted"
    /\ IF AvgSimilarity(Scores(aq.p.metadata)).raised
          THEN aq' = [aq EXCEPT !.pc = "failed", !.error = "ZeroDivisionError",
                                !.llm_calls = @ + 1, !.llm_context = aq.p.context]
          ELSE aq' = [aq EXCEPT !.pc = "done",
                                !.llm_calls = @ + 1, !.llm_context = aq.p.context,
                                !.technical_info =
                                    TechnicalInfo(aq.total_chunks, aq.p,
                                                  aq.similarity_threshold,
                                                  aq.use_relevance_filter)]
    /\ UNCHANGED OtherThanAq

\* line 333: llm.invoke raises
AqLlmRaises ==
    /\ aq.pc = "prompted"
    /\ aq' = [aq EXCEPT !.pc = "failed", !.error = "llm",
                        !.llm_calls = @ + 1, !.llm_context = aq.p.context]
    /\ UNCHANGED OtherThanAq

-----------------------------------------------------------------------------
(* app.py and rag.py: sessions, ingestion, deletion.  The handlers are     *)
(* `async def` bodies of blocking calls: each runs to completion, so each  *)
(* path through a handler is one action.                                   *)

Sids == 1..MaxSessions
Files == 1..MaxFiles

\* every session in one directory
SharedDir(session_id) == 0

\* VECDB_DIR / session_id
PersistDir(session_id) == session_id

\* the passages of one ingestion, tagged with the session id drawn for it
ChunksOf(session_id, n) == {<<session_id, i>> : i \in 1..n}

HasDir(d) == d \in DOMAIN vecdb

\* Chroma(persist_directory=...): the client opens, or creates, the directory
OpenStore(db, d) ==
    [x \in DOMAIN db \cup {d} |-> IF x \in DOMAIN db THEN db[x] ELSE {}]

\* Chroma.from_documents: open the directory, then add the embedded chunks
FromDocuments(db, d, chunks) ==
    [x \in DOMAIN db \cup {d} |->
        IF x = d THEN (IF x \in DOMAIN db THEN db[x] ELSE {}) \cup chunks
                 ELSE db[x]]

\* shutil.rmtree(vecdb_path)
RemoveDir(db, d) == [x \in DOMAIN db \ {d} |-> db[x]]

\* sessions[session_id] = vectordb
Register(reg, session_id, handle) ==
    [x \in DOMAIN reg \cup {session_id} |->
        IF x = session_id THEN handle ELSE reg[x]]

Resp(op, sid, status, metadata, listed, num_chunks) ==
    [op |-> op, sid |-> sid, status |-> status, metadata |-> metadata,
     listed |-> listed, num_chunks |-> num_chunks]

NoResp == Resp("none", 0, 0, <<>>, {}, 0)

OtherThanSessions == <<aq, fn>>

\* upload_pdf, lines 56-68: the file name or size is refused
UploadRejected ==
    /\ last' = Resp("upload", 0, 400, <<>>, {}, 0)
    /\ UNCHANGED <<sessions, vecdb, uploads, nextSid, ingested, deleted>>
    /\ UNCHANGED OtherThanSessions

\* upload_pdf with ingest_document raising at lines 74-78: the loader raises
\* or returns no pages; the handler removes the file it wrote
UploadLoadFails ==
    /\ \E f \in Files : uploads' = uploads \ {f}
    /\ last' = Resp("upload", 0, 500, <<>>, {}, 0)
    /\ UNCHANGED <<sessions, vecdb, nextSid, ingested, deleted>>
    /\ UNCHANGED OtherThanSessions

\* upload_pdf with Chroma.from_documents raising at lines 91-95, after the
\* session id was drawn: the embedding call fails.  `opened` says whether the
\* store had opened its persist directory before the embedding was requested.
UploadBuildFails ==
    /\ nextSid <= MaxSessions
    /\ \E f \in Files, opened \in BOOLEAN :
          /\ uploads' = uploads \ {f}
          /\ vecdb' = IF opened THEN OpenStore(vecdb, PersistDir(nextSid)) ELSE vecdb
    /\ nextSid' = nextSid + 1
    /\ last' = Resp("upload", 0, 500, <<>>, {}, 0)
    /\ UNCHANGED <<sessions, ingested, deleted>>
    /\ UNCHANGED OtherThanSessions

\* upload_pdf returning: the file is kept, the index is built and registered
UploadOk ==
    /\ nextSid <= MaxSessions
    /\ \E f \in Files, n \in 0..MaxChunks :
          /\ uploads' = uploads \cup {f}
          /\ vecdb' = FromDocuments(vecdb, PersistDir(nextSid), ChunksOf(nextSid, n))
          /\ sessions' = Register(sessions, nextSid,
                                  [dir |-> PersistDir(nextSid),
                                   mem |-> ChunksOf(nextSid, n)])
          /\ last' = Resp("upload", nextSid, 200, <<>>, {}, n)
    /\ nextSid' = nextSid + 1
    /\ ingested' = ingested \cup {nextSid}
    /\ UNCHANGED deleted
    /\ UNCHANGED OtherThanSessions

\* process_url, lines 135-159: the URL is refused
UrlRejected ==
    /\ last' = Resp("process-url", 0, 400, <<>>, {}, 0)
    /\ UNCHANGED <<sessions, vecdb, uploads, nextSid, ingested, deleted>>
    /\ UNCHANGED OtherThanSessions

\* process_url with ingest_url raising at lines 486-518: the loader raises or
\* returns nothing, or the summary call to the language model raises
UrlLoadFails ==
    /\ last' = Resp("process-url", 0, 500, <<>>, {}, 0)
    /\ UNCHANGED <<sessions, vecdb, uploads, nextSid, ingested, deleted>>
    /\ UNCHANGED OtherThanSessions

\* process_url with Chroma.from_documents raising at lines 532-536
UrlBuildFails ==
    /\ nextSid <= MaxSessions
    /\ \E opened \in BOOLEAN :
          vecdb' = IF opened THEN OpenStore(vecdb, PersistDir(nextSid)) ELSE vecdb
    /\ nextSid' = nextSid + 1
    /\ last' = Resp("process-url", 0, 500, <<>>, {}, 0)
    /\ UNCHANGED <<sessions, uploads, ingested, deleted>>
    /\ UNCHANGED OtherThanSessions

\* process_url returning: the index is built and registered
UrlOk ==
    /\ nextSid <= MaxSessions
    /\ \E n \in 0..MaxChunks :
          /\ vecdb' = FromDocuments(vecdb, PersistDir(nextSid), ChunksOf(nextSid, n))
          /\ sessions' = Register(sessions, nextSid,
                                  [dir |-> PersistDir(nextSid),
                                   mem |-> ChunksOf(nextSid, n)])
          /\ last' = Resp("process-url", nextSid, 200, <<>>, {}, n)
    /\ nextSid' = nextSid + 1
    /\ ingested' = ingested \cup {nextSid}
    /\ UNCHANGED <<uploads, deleted>>
    /\ UNCHANGED OtherThanSessions

\* the distance the store reports for the hit at a rank: the session
\* operations are followed over every order of the passages, with distances
\* that grow by a half from rank to rank
AskScore(rank) == Tenths(5 * rank)

RECURSIVE Orders(_)
Orders(passages) ==
    IF passages = {} THEN {<<>>}
    ELSE UNION {{<<p>> \o r : r \in Orders(passages \ {p})} : p \in passages}

\* every best-first listing of a set of passages
Rankings(passages) ==
    {[i \in 1..Len(o) |-> <<o[i], AskScore(i)>>] : o \in Orders(passages)}

\* similarity_search_with_score(question, k=k): the k best of a ranking
TopK(ranking) == SubSeq(ranking, 1, IF Len(ranking) < K THEN Len(ranking) ELSE K)

\* what a handle reads: its directory, or after the directory's removal
\* whatever the open client still holds
Readable(handle) == IF HasDir(handle.dir) THEN vecdb[handle.dir] ELSE handle.mem

\* ask, lines 97-105: the request is refused
AskRejected ==
    /\ \E sid \in Sids : last' = Resp("ask", sid, 400, <<>>, {}, 0)
    /\ UNCHANGED <<sessions, vecdb, uploads, nextSid, ingested, deleted>>
    /\ UNCHANGED OtherThanSessions

\* ask, lines 107-109: sessions.get finds nothing, or a handle that is falsy
\* (a store class that defines __len__ is falsy when its collection is empty)
AskNotFound ==
    /\ \E sid \in Sids :
          /\ \/ sid \notin DOMAIN sessions
             \/ /\ sid \in DOMAIN sessions
                /\ Readable(sessions[sid]) = {}
          /\ last' = Resp("ask", sid, 404, <<>>, {}, 0)
    /\ UNCHANGED <<sessions, vecdb, uploads, nextSid, ingested, deleted>>
    /\ UNCHANGED OtherThanSessions

\* ask, lines 111-117: answer_question(vectordb, req.question) returns
AskAnswers ==
    /\ \E sid \in DOMAIN sessions :
          \E ranking \in Rankings(Readable(sessions[sid])) :
             LET hits == TopK(ranking)
                 p == Pipeline(hits, None, FALSE)
                 info == TechnicalInfo(Cardinality(Readable(sessions[sid])), p,
                                       None, FALSE)
             IN  last' = Resp("ask", sid, 200, p.metadata, {},
                              info.chunks_used_for_answer)
    /\ UNCHANGED <<sessions, vecdb, uploads, nextSid, ingested, deleted>>
    /\ UNCHANGED OtherThanSessions

\* a failed question taking its session out of the registry
AskFailsEvicts ==
    /\ \E sid \in DOMAIN sessions :
          /\ sessions' = [x \in DOMAIN sessions \ {sid} |-> sessions[x]]
          /\ last' = Resp("ask", sid, 500, <<>>, {}, 0)
    /\ UNCHANGED <<vecdb, uploads, nextSid, ingested, deleted>>
    /\ UNCHANGED OtherThanSessions

\* ask, lines 118-123: the search or the language model raises
AskFails ==
    /\ \E sid \in DOMAIN sessions : last' = Resp("ask", sid, 500, <<>>, {}, 0)
    /\ UNCHANGED <<sessions, vecdb, uploads, nextSid, ingested, deleted>>
    /\ UNCHANGED OtherThanSessions

\* get_technical_info: get_session_technical_info finds no directory
InfoNotFound ==
    /\ \E sid \in Sids :
          /\ ~HasDir(PersistDir(sid))
          /\ last' = Resp("info", sid, 404, <<>>, {}, 0)
    /\ UNCHANGED <<sessions, vecdb, uploads, nextSid, ingested, deleted>>
    /\ UNCHANGED OtherThanSessions

\* get_technical_info: the directory is opened and its collection counted
InfoFound ==
    /\ \E sid \in Sids :
          /\ HasDir(PersistDir(sid))
          /\ last' = Resp("info", sid, 200, <<>>, {},
                          Cardinality(vecdb[PersistDir(sid)]))
    /\ UNCHANGED <<sessions, vecdb, uploads, nextSid, ingested, deleted>>
    /\ UNCHANGED OtherThanSessions

\* delete_session: the directory is removed if it exists; nothing else
DeleteSession ==
    /\ \E sid \in Sids :
          /\ vecdb' = IF HasDir(PersistDir(sid))
                         THEN RemoveDir(vecdb, PersistDir(sid)) ELSE vecdb
          /\ deleted' = deleted \cup ({sid} \cap ingested)
          /\ last' = Resp("delete", sid, 200, <<>>, {}, 0)
    /\ UNCHANGED <<sessions, uploads, nextSid, ingested>>
    /\ UNCHANGED OtherThanSessions

\* get_all_sessions: the names of the directories under VECDB_DIR
GetAllSessions ==
    /\ last' = Resp("list", 0, 200, <<>>, DOMAIN vecdb, 0)
    /\ UNCHANGED <<sessions, vecdb, uploads, nextSid, ingested, deleted>>
    /\ UNCHANGED OtherThanSessions

\* load_vectordb: no directory for the session id, None is returned
LoadNotFound ==
    /\ \E sid \in Sids :
          /\ ~HasDir(PersistDir(sid))
          /\ last' = Resp("load", sid, 404, <<>>, {}, 0)
    /\ UNCHANGED <<sessions, vecdb, uploads, nextSid, ingested, deleted>>
    /\ UNCHANGED OtherThanSessions

\* load_vectordb: the directory is reopened and the handle returned to the
\* caller; app.py never calls it, and nothing is registered
LoadFound ==
    /\ \E sid \in Sids :
          /\ HasDir(PersistDir(sid))
          /\ last' = Resp("load", sid, 200, <<>>, {},
                          Cardinality(vecdb[PersistDir(sid)]))
    /\ UNCHANGED <<sessions, vecdb, uploads, nextSid, ingested, deleted>>
    /\ UNCHANGED OtherThanSessions

\* the process starts again: app.py runs `sessions = {}`; the directories
\* under VECDB_DIR and UPLOADS_DIR stay
Restart ==
    /\ sessions' = [x \in {} |-> {}]
    /\ last' = NoResp
    /\ UNCHANGED <<vecdb, uploads, nextSid, ingested, deleted>>
    /\ UNCHANGED OtherThanSessions

-----------------------------------------------------------------------------
(* Specifications *)

EmptyMap == [x \in {} |-> {}]

InitSessions ==
    /\ sessions = EmptyMap
    /\ vecdb = EmptyMap
    /\ uploads = {}
    /\ nextSid = 1
    /\ last = NoResp
    /\ ingested = {}
    /\ deleted = {}

Init ==
    /\ InitSessions
    /\ aq = AqIdle
    /\ fn = FnIdle

\* the web application and the session functions of rag.py
Next ==
    \/ UploadRejected \/ UploadLoadFails \/ UploadBuildFails \/ UploadOk
    \/ UrlRejected \/ UrlLoadFails \/ UrlBuildFails \/ UrlOk
    \/ AskRejected \/ AskNotFound \/ AskAnswers \/ AskFails
    \/ InfoNotFound \/ InfoFound
    \/ DeleteSession
    \/ GetAllSessions
    \/ LoadNotFound \/ LoadFound
    \/ Restart

Spec == Init /\ [][Next]_vars

\* one answer_question call
NextAnswer ==
    \/ AqCall \/ AqSearch \/ AqSearchRaises \/ AqBuild
    \/ AqLlmReturns \/ AqLlmRaises

SpecAnswer == Init /\ [][NextAnswer]_vars

\* one call of a score helper
NextScore == CallNormalize \/ CallNormalizeAgain \/ CallFilter

SpecScore == Init /\ [][NextScore]_vars

-----------------------------------------------------------------------------
(* Claims *)

\* session ids drawn so far; those among them whose ingestion raised
Drawn == 1..(nextSid - 1)
FailedBuilds == Drawn \ ingested

\* C1: once delete_session(id) has run for an ingested session, every later
\* get_session_info(id) reports not-found and every later ask(id, question)
\* fails with session-not-found: it is never answered, and never fails in
\* another way (a refused, malformed request aside).  Stated for sessions
\* ingested with at least one passage.
C1_DeletedSessionNotFound ==
    /\ (last.op = "info" /\ last.sid \in deleted) => last.status = 404
    /\ (last.op = "ask" /\ last.sid \in deleted /\ last.status # 400
            /\ last.sid \in DOMAIN sessions
            /\ sessions[last.sid].mem # {})
          => last.status = 404

\* C2: an ingestion that fails, also after its session id was drawn, leaves
\* no registry entry and no persisted index directory for that id.
C2_FailedIngestionLeavesNothing ==
    \A sid \in FailedBuilds :
        /\ sid \notin DOMAIN sessions
        /\ ~HasDir(PersistDir(sid))

\* C3: ask, get_session_info and list_sessions resolve or report only
\* sessions whose index build completed successfully.
C3_OnlyBuiltSessionsVisible ==
    /\ (last.op \in {"ask", "info"} /\ last.status = 200) => last.sid \in ingested
    /\ last.op = "list" => last.listed \subseteq ingested

\* C4: every passage in the metadata of an answered ask(B, question) was
\* ingested under session B, and B's directory holds B's passages only.
C4_SessionIsolation ==
    /\ (last.op = "ask" /\ last.status = 200) =>
          \A i \in 1..Len(last.metadata) : last.metadata[i].doc[1] = last.sid
    /\ \A sid \in DOMAIN sessions :
          \A passage \in Readable(sessions[sid]) : passage[1] = sid

\* an answered ask of session 2 that used a passage, while session 1 holds some
C4_Witness ==
    /\ last.op = "ask" /\ last.status = 200 /\ last.sid = 2
    /\ Len(last.metadata) >= 1
    /\ 1 \in DOMAIN sessions /\ Readable(sessions[1]) # {}

\* C5: the normalised score lies in [0,1]; it is 1 - raw/2 on 0 <= raw <= 2,
\* (raw + 1)/2 clamped to [0,1] on raw < 0, and 1/(1 + (raw - 2)) on raw > 2.
\* With raw = n/10 and the result a/b (b > 0), stated on integers.
C5_NormalizePiecewise ==
    fn.op = "normalize" =>
        LET n == fn.raw[1]
            a == fn.ret[1]
            b == fn.ret[2]
        IN  /\ fn.raw[2] = 10 /\ b > 0
            /\ 0 <= a /\ a <= b
            /\ (0 <= n /\ n <= 20) => 20 * a = (20 - n) * b
            /\ (n < 0 /\ n >= -10) => 20 * a = (n + 10) * b
            /\ n < -10 => a = 0
            /\ n > 20 => (n - 10) * a = 10 * b
            /\ n = 0 => a = b
            /\ n = 10 => 2 * a = b
            /\ n \in {20, -10} => a = 0

\* the decay branch: 2.5 normalises to 2/3
C5_Witness ==
    /\ fn.op = "normalize" /\ fn.raw = Tenths(25)
    /\ 3 * fn.ret[1] = 2 * fn.ret[2]

\* C6: in the metadata the item at position i has chunk_id i (1-based) and
\* similarity_score never increases along the list.
C6_MetadataOrdered ==
    aq.pc \in {"prompted", "done"} =>
        /\ \A i \in 1..Len(aq.p.metadata) : aq.p.metadata[i].chunk_id = i
        /\ \A i \in 1..Len(aq.p.metadata), j \in 1..Len(aq.p.metadata) :
              i < j => aq.p.metadata[i].similarity_score
                          >= aq.p.metadata[j].similarity_score

\* positions of a list whose normalised similarity reaches the threshold
Surviving(results, threshold) ==
    {i \in 1..Len(results) :
        RLe(threshold, _normalize_similarity_score(results[i][2]))}

\* the j-th smallest member of a set of positions
Nth(S, j) == CHOOSE i \in S : Cardinality({k \in S : k < i}) = j - 1

\* C7: the filter returns exactly the pairs whose normalised similarity is
\* >= the threshold, in their original order, raw scores unchanged; with no
\* threshold it returns its input.
C7_FilterExact ==
    fn.op = "filter" =>
        IF fn.threshold = None
            THEN fn.ret = fn.results
            ELSE LET S == Surviving(fn.results, fn.threshold)
                 IN  /\ Len(fn.ret) = Cardinality(S)
                     /\ \A j \in 1..Len(fn.ret) : fn.ret[j] = fn.results[Nth(S, j)]

\* a filter call that drops a pair standing before one it keeps, and keeps a
\* pair whose similarity equals the threshold
C7_Witness ==
    /\ fn.op = "filter" /\ fn.threshold = Tenths(5)
    /\ Len(fn.results) = 3 /\ Len(fn.ret) = 2
    /\ fn.ret[1] = fn.results[2]
    /\ fn.ret[2][2] = Tenths(10)

Docs(results) == {results[i][1] : i \in 1..Len(results)}

\* C8: for the same retrieval result a higher threshold never leaves more
\* chunks after the similarity filter, its survivors are among those of the
\* lower threshold, and no threshold leaves more than no threshold at all.
C8_ThresholdMonotonic ==
    (aq.pc \in {"prompted", "done"} /\ aq.similarity_threshold # None) =>
        /\ aq.p.chunks_after_similarity_filter
              <= Pipeline(aq.hits, None, aq.use_relevance_filter).chunks_after_similarity_filter
        /\ \A t2 \in Thresholds :
              RLe(aq.similarity_threshold, t2) =>
                 LET q == Pipeline(aq.hits, t2, aq.use_relevance_filter)
                 IN  /\ q.chunks_after_similarity_filter
                            <= aq.p.chunks_after_similarity_filter
                     /\ Docs(q.results) \subseteq Docs(aq.p.results)

\* a call whose threshold keeps two of three hits where a higher one keeps fewer
C8_Witness ==
    /\ aq.pc = "done" /\ aq.similarity_threshold = Tenths(5)
    /\ Len(aq.hits) = 3 /\ aq.p.chunks_after_similarity_filter = 2
    /\ Pipeline(aq.hits, Tenths(8), FALSE).chunks_after_similarity_filter = 1

\* C9: with no passage retrieved, or none surviving the threshold, the call
\* still invokes the language model once, with an empty context, and returns
\* empty metadata, zero statistics and chunks_used_for_answer = 0; it does
\* not fail of its own accord.
C9_EmptyResultSafe ==
    /\ (aq.pc \in {"prompted", "done", "failed"} /\ aq.error # "retrieval"
            /\ aq.p.results = <<>>) =>
          /\ aq.p.metadata = <<>> /\ aq.p.context = <<>>
          /\ aq.pc = "failed" => aq.error = "llm"
          /\ aq.pc # "prompted" => (aq.llm_calls = 1 /\ aq.llm_context = <<>>)
          /\ aq.pc = "prompted" => aq.llm_calls = 0
    /\ (aq.pc = "done" /\ aq.p.results = <<>>) =>
          /\ aq.technical_info.avg_similarity_score = 0
          /\ aq.technical_info.max_similarity_score = 0
          /\ aq.technical_info.min_similarity_score = 0
          /\ aq.technical_info.chunks_used_for_answer = 0

\* a finished call whose threshold excluded every one of its hits
C9_Witness ==
    /\ aq.pc = "done" /\ Len(aq.hits) >= 2 /\ aq.p.results = <<>>
    /\ aq.similarity_threshold # None
    /\ aq.llm_calls = 1

\* C10: a threshold below 0 or above 1 is rejected: the pipeline does not
\* filter with it and no answer is produced.
C10_OutOfRangeThresholdRejected ==
    (aq.similarity_threshold # None
        /\ (RLt(aq.similarity_threshold, Rat(0, 1))
              \/ RLt(Rat(1, 1), aq.similarity_threshold))) =>
        aq.pc \notin {"prompted", "done"}

\* C11: a disabled filter stage changes no count: technical_info carries
\* chunks_retrieved_initial and chunks_after_similarity_filter, equal (and
\* equal to the number of hits) when similarity_threshold is None; and
\* chunks_after_relevance_filter equals chunks_after_similarity_filter and
\* chunks_used_for_answer when use_relevance_filter is False.
C11_DisabledStageKeepsCounts ==
    aq.pc = "done" =>
        LET ti == aq.technical_info
        IN  /\ {"chunks_retrieved_initial", "chunks_after_similarity_filter"}
                  \subseteq DOMAIN ti
            /\ ti.chunks_retrieved_initial = Len(aq.hits)
            /\ aq.similarity_threshold = None =>
                  ti.chunks_after_similarity_filter = ti.chunks_retrieved_initial
            /\ ~aq.use_relevance_filter =>
                  /\ ti.chunks_after_relevance_filter
                        = ti.chunks_after_similarity_filter
                  /\ ti.chunks_after_relevance_filter = ti.chunks_used_for_answer

\* a finished call with both stages disabled whose hits include one of
\* similarity 0, which a threshold would have dropped
C11_Witness ==
    /\ aq.pc = "done" /\ aq.similarity_threshold = None
    /\ ~aq.use_relevance_filter
    /\ Len(aq.hits) = 3 /\ aq.hits[3][2] = Tenths(20)
    /\ aq.technical_info.chunks_used_for_answer = 3

\* C12: normalisation is idempotent: normalising a normalised score gives
\* that same score.
C12_NormalizeIdempotent ==
    fn.op = "renormalize" => REq(fn.again, fn.ret)

\* C12, amended: a normalised score s lies in [0,1], so normalising it again
\* takes the distance branch and gives 1 - s/2, between 1/2 and 1; the two
\* agree only where s = 2/3.  With s = a/b and the second result c/d.
C12_RenormalizeHalves ==
    fn.op = "renormalize" =>
        LET a == fn.ret[1]
            b == fn.ret[2]
            c == fn.again[1]
            d == fn.again[2]
        IN  /\ b > 0 /\ d > 0
            /\ 2 * b * c = (2 * b - a) * d
            /\ d <= 2 * c /\ c <= d
            /\ REq(fn.again, fn.ret) <=> 3 * a = 2 * b

\* raw score 1.0 normalises to 1/2, and that to 3/4
C12_Witness ==
    /\ fn.op = "renormalize" /\ fn.raw = Tenths(10)
    /\ 2 * fn.ret[1] = fn.ret[2]
    /\ 4 * fn.again[1] = 3 * fn.again[2]

\* C13: a source whose text yields zero passages makes the ingestion fail:
\* no ingestion returns a session id for zero passages, and no index with
\* zero passages is ever registered as a session.
C13_EmptySourceIsHardFailure ==
    /\ (last.op \in {"upload", "process-url"} /\ last.status = 200)
          => last.num_chunks > 0
    /\ \A sid \in DOMAIN sessions : sessions[sid].mem # {}

\* C14: an ask request, whatever its outcome, leaves the registry's keys,
\* the set of persisted indexes and the passages of every index as they were.
C14_AskChangesNothing ==
    [][last'.op = "ask" =>
          /\ DOMAIN sessions' = DOMAIN sessions
          /\ DOMAIN vecdb' = DOMAIN vecdb
          /\ \A d \in DOMAIN vecdb :
                /\ vecdb'[d] = vecdb[d]
                /\ Cardinality(vecdb'[d]) = Cardinality(vecdb[d])]_vars

\* a question that failed against a registered session of two passages,
\* with a second session registered beside it
C14_Witness ==
    /\ last.op = "ask" /\ last.status = 500
    /\ last.sid \in DOMAIN sessions /\ HasDir(PersistDir(last.sid))
    /\ Cardinality(vecdb[PersistDir(last.sid)]) = 2
    /\ Cardinality(DOMAIN sessions) = 2

\* C15: the registry and the persisted indexes agree: a session id is a key
\* of `sessions` exactly when a persisted index is found for it, so that a
\* session still persisted after a restart can be asked.  Stated for the
\* sessions whose ingestion returned and that delete_session was not run for.
C15_RegistryMatchesDisk ==
    \A sid \in ingested \ deleted :
        sid \in DOMAIN sessions <=> HasDir(PersistDir(sid))

=============================================================================
